---- MODULE Spec2Model ----
(***************************************************************************)
(* Model of the byte-bounded LFU cache of src/src/index.js (class Cache).  *)
(*                                                                         *)
(* A JavaScript Map is modelled as a sequence of <<key, value>> pairs in   *)
(* insertion order: Map.set on a key that is already there replaces the    *)
(* value in place, Map.set on a new key appends, Map.delete removes.       *)
(* A Buffer is a record [kind |-> "Buffer", bytes |-> <<...>>]; a key is a *)
(* string, and the token NotAString stands for a non-string argument.      *)
(***************************************************************************)
EXTENDS Integers, Sequences, FiniteSets, TLC

\* ---------------------------------------------------------------- bounds
MaxCapacity == 1
MaxCount == 1

\* ---------------------------------------------------------------- inputs
StringKeys == {"a", "b", "c"}
NotAString == "null"
KeyArgs == StringKeys \cup {NotAString}
\* the keys of the calls that SpecCalls records in full
CallKeyArgs == {"a", "b", NotAString}
NoKey == "-"

\* one byte longer than the largest cache, so that some value never fits
MaxLen == MaxCapacity + 1
Fills == {0}

\* Buffer.alloc(n, fill)
alloc(n, fill) == [kind |-> "Buffer", bytes |-> [i \in 1..n |-> fill]]

Buffers == {alloc(n, fill) : n \in 0..MaxLen, fill \in Fills}
NotABuffer == [kind |-> "string", bytes |-> << >>]
Undefined == [kind |-> "undefined", bytes |-> << >>]
ValueArgs == Buffers \cup {NotABuffer}
CtorArgs == (0 - 1)..MaxCapacity

isString(key) == key # NotAString
isBuffer(value) == value.kind = "Buffer"
length(value) == Len(value.bytes)
isValidMaxSize(n) == n \in Int /\ n >= 0

\* ---------------------------------------------------------------- Map
MapHas(m, k) == \E i \in 1..Len(m) : m[i][1] = k
MapGet(m, k) == m[CHOOSE i \in 1..Len(m) : m[i][1] = k][2]
MapSet(m, k, v) ==
  IF MapHas(m, k)
    THEN [i \in 1..Len(m) |-> IF m[i][1] = k THEN <<k, v>> ELSE m[i]]
    ELSE Append(m, <<k, v>>)
MapDelete(m, k) == SelectSeq(m, LAMBDA e : e[1] # k)
MapKeys(m) == [i \in 1..Len(m) |-> m[i][1]]
MapKeySet(m) == {m[i][1] : i \in 1..Len(m)}

\* ---------------------------------------------------------------- state
VARIABLES maxSize, size, data, accessCount, last, call
vars == <<maxSize, size, data, accessCount, last, call>>

\* the three mutable private fields, as one value
State(s, d, a) == [size |-> s, data |-> d, accessCount |-> a]
Cur == State(size, data, accessCount)

\* what a call did: the fields it leaves, whether it threw a TypeError, whether
\* it got past its early returns (done), what it returned, and for set the
\* entries #free removed (in order, each <<key, count>>), whether key was
\* stored and the access count it captured
Result(st, threw, done, retBool, retValue, evicted, existed, count) ==
  [st |-> st, threw |-> threw, done |-> done, retBool |-> retBool, retValue |-> retValue,
   evicted |-> evicted, existed |-> existed, count |-> count]
Done(st, retBool, retValue) == Result(st, FALSE, TRUE, retBool, retValue, << >>, FALSE, 0)
Returns(st, retBool, retValue) == Result(st, FALSE, FALSE, retBool, retValue, << >>, FALSE, 0)
Throws(st) == Result(st, TRUE, FALSE, FALSE, Undefined, << >>, FALSE, 0)

\* ---------------------------------------------------------------- private methods
\* mutant of hasCapacity: the bytes already stored are not counted
hasCapacityIgnoresSize(cap, st, value) == cap >= value

\* #hasCapacity(value), with #maxSize = cap
hasCapacity(cap, st, value) == cap - st.size >= value

\* mutant of delete: the entry goes, its bytes stay in #size
deleteKeepsSize(st, key) ==
  IF ~isString(key) THEN Throws(st)
  ELSE IF ~MapHas(st.data, key) THEN Returns(st, FALSE, Undefined)
  ELSE Done(State(st.size, MapDelete(st.data, key), MapDelete(st.accessCount, key)),
            TRUE, Undefined)

\* mutant of delete: the entry goes, its access count stays
deleteKeepsCount(st, key) ==
  IF ~isString(key) THEN Throws(st)
  ELSE IF ~MapHas(st.data, key) THEN Returns(st, FALSE, Undefined)
  ELSE Done(State(st.size - length(MapGet(st.data, key)),
                  MapDelete(st.data, key),
                  st.accessCount),
            TRUE, Undefined)

\* delete(key)
delete(st, key) ==
  IF ~isString(key) THEN Throws(st)
  ELSE IF ~MapHas(st.data, key) THEN Returns(st, FALSE, Undefined)
  ELSE Done(State(st.size - length(MapGet(st.data, key)),
                  MapDelete(st.data, key),
                  MapDelete(st.accessCount, key)),
            TRUE, Undefined)

\* Array.prototype.sort((a, b) => a[1] - b[1]): stable, ascending by count
insertSorted(sorted, e) ==
  LET n == Cardinality({i \in 1..Len(sorted) : sorted[i][2] <= e[2]})
  IN  SubSeq(sorted, 1, n) \o <<e>> \o SubSeq(sorted, n + 1, Len(sorted))

RECURSIVE sortFrom(_, _)
sortFrom(entries, sorted) ==
  IF entries = << >> THEN sorted
  ELSE sortFrom(Tail(entries), insertSorted(sorted, Head(entries)))

\* mutant of sortedAccessCounts: the entries are left in the order of the Map
sortedAccessCountsUnsorted(entries) == entries

sortedAccessCounts(entries) == sortFrom(entries, << >>)

\* mutant of freeLoop: the loop runs until the sorted list is empty
RECURSIVE freeLoopEvictsAll(_, _, _, _, _)
freeLoopEvictsAll(cap, st, sorted, neededSize, evicted) ==
  IF Len(sorted) # 0
    THEN LET d == delete(st, Head(sorted)[1])
         IN  freeLoopEvictsAll(cap, d.st, Tail(sorted), neededSize,
                               IF d.retBool THEN Append(evicted, Head(sorted)) ELSE evicted)
    ELSE [st |-> st, evicted |-> evicted]

\* the while loop of #free: shift the head of the sorted list and delete it,
\* until the value fits or the list is empty
RECURSIVE freeLoop(_, _, _, _, _)
freeLoop(cap, st, sorted, neededSize, evicted) ==
  IF ~hasCapacity(cap, st, neededSize) /\ Len(sorted) # 0
    THEN LET d == delete(st, Head(sorted)[1])
         IN  freeLoop(cap, d.st, Tail(sorted), neededSize,
                      IF d.retBool THEN Append(evicted, Head(sorted)) ELSE evicted)
    ELSE [st |-> st, evicted |-> evicted]

\* #free(neededSize)
free(cap, st, neededSize) ==
  IF hasCapacity(cap, st, neededSize)
    THEN [st |-> st, evicted |-> << >>]
    ELSE freeLoop(cap, st, sortedAccessCounts(st.accessCount), neededSize, << >>)

\* ---------------------------------------------------------------- public methods
\* mutant of get: a miss is counted too
getCountsMisses(st, key) ==
  IF ~isString(key) THEN Throws(st)
  ELSE
    LET count == IF MapHas(st.accessCount, key) THEN MapGet(st.accessCount, key) ELSE 0
        counted == State(st.size, st.data, MapSet(st.accessCount, key, count + 1))
    IN  IF ~MapHas(st.data, key) THEN Returns(counted, FALSE, Undefined)
        ELSE Done(counted, FALSE, MapGet(st.data, key))

\* get(key)
get(st, key) ==
  IF ~isString(key) THEN Throws(st)
  ELSE IF ~MapHas(st.data, key) THEN Returns(st, FALSE, Undefined)
  ELSE Done(State(st.size, st.data,
                  MapSet(st.accessCount, key, MapGet(st.accessCount, key) + 1)),
            FALSE, MapGet(st.data, key))

\* mutant of set: the type of value is checked after the old entry is deleted
setChecksValueLate(cap, st, key, value) ==
  IF ~isString(key) THEN Throws(st)
  ELSE IF ~isBuffer(value) THEN Throws(delete(st, key).st)
  ELSE IF cap < length(value) THEN Returns(st, FALSE, Undefined)
  ELSE
    LET count == IF MapHas(st.accessCount, key) THEN MapGet(st.accessCount, key) ELSE 0
        deleted == delete(st, key)
        freed == free(cap, deleted.st, length(value))
    IN  Result(State(freed.st.size + length(value),
                     MapSet(freed.st.data, key, value),
                     MapSet(freed.st.accessCount, key, count)),
               FALSE, TRUE, FALSE, Undefined, freed.evicted, deleted.retBool, count)

\* mutant of set: the new entry starts at access count 0 again
setResetsCount(cap, st, key, value) ==
  IF ~isString(key) \/ ~isBuffer(value) THEN Throws(st)
  ELSE IF cap < length(value) THEN Returns(st, FALSE, Undefined)
  ELSE
    LET deleted == delete(st, key)
        freed == free(cap, deleted.st, length(value))
    IN  Result(State(freed.st.size + length(value),
                     MapSet(freed.st.data, key, value),
                     MapSet(freed.st.accessCount, key, 0)),
               FALSE, TRUE, FALSE, Undefined, freed.evicted, deleted.retBool, 0)

\* mutant of set: the old value is deleted before the size of the new one is checked
setDeletesBeforeSizeCheck(cap, st, key, value) ==
  IF ~isString(key) \/ ~isBuffer(value) THEN Throws(st)
  ELSE
    LET count == IF MapHas(st.accessCount, key) THEN MapGet(st.accessCount, key) ELSE 0
        deleted == delete(st, key)
        freed == free(cap, deleted.st, length(value))
    IN  IF cap < length(value) THEN Returns(deleted.st, FALSE, Undefined)
        ELSE Result(State(freed.st.size + length(value),
                          MapSet(freed.st.data, key, value),
                          MapSet(freed.st.accessCount, key, count)),
                    FALSE, TRUE, FALSE, Undefined, freed.evicted, deleted.retBool, count)

\* mutant of set: a value that fills the cache exactly is turned away
setRejectsExactFit(cap, st, key, value) ==
  IF ~isString(key) \/ ~isBuffer(value) THEN Throws(st)
  ELSE IF cap <= length(value) THEN Returns(st, FALSE, Undefined)
  ELSE
    LET count == IF MapHas(st.accessCount, key) THEN MapGet(st.accessCount, key) ELSE 0
        deleted == delete(st, key)
        freed == free(cap, deleted.st, length(value))
    IN  Result(State(freed.st.size + length(value),
                     MapSet(freed.st.data, key, value),
                     MapSet(freed.st.accessCount, key, count)),
               FALSE, TRUE, FALSE, Undefined, freed.evicted, deleted.retBool, count)

\* set(key, value)
set(cap, st, key, value) ==
  IF ~isString(key) \/ ~isBuffer(value) THEN Throws(st)
  ELSE IF cap < length(value) THEN Returns(st, FALSE, Undefined)
  ELSE
    LET count == IF MapHas(st.accessCount, key) THEN MapGet(st.accessCount, key) ELSE 0
        deleted == delete(st, key)
        freed == free(cap, deleted.st, length(value))
    IN  Result(State(freed.st.size + length(value),
                     MapSet(freed.st.data, key, value),
                     MapSet(freed.st.accessCount, key, count)),
               FALSE, TRUE, FALSE, Undefined, freed.evicted, deleted.retBool, count)

\* mutant of rename: the value moves, the access count does not
renameResetsCount(st, oldKey, newKey) ==
  IF ~isString(oldKey) \/ ~isString(newKey) THEN Throws(st)
  ELSE IF ~MapHas(st.data, oldKey) THEN Returns(st, FALSE, Undefined)
  ELSE IF MapHas(st.data, newKey) THEN Returns(st, FALSE, Undefined)
  ELSE Done(State(st.size,
                  MapDelete(MapSet(st.data, newKey, MapGet(st.data, oldKey)), oldKey),
                  MapSet(st.accessCount, newKey, 0)),
            TRUE, Undefined)

\* mutant of rename: the entry keeps its place in the Map under its new key
renameInPlace(st, oldKey, newKey) ==
  IF ~isString(oldKey) \/ ~isString(newKey) THEN Throws(st)
  ELSE IF ~MapHas(st.data, oldKey) THEN Returns(st, FALSE, Undefined)
  ELSE IF MapHas(st.data, newKey) THEN Returns(st, FALSE, Undefined)
  ELSE Done(State(st.size,
                  [i \in 1..Len(st.data) |->
                     IF st.data[i][1] = oldKey THEN <<newKey, st.data[i][2]>> ELSE st.data[i]],
                  MapSet(st.accessCount, newKey, MapGet(st.accessCount, oldKey))),
            TRUE, Undefined)

\* mutant of rename: an entry stored under newKey is overwritten
renameOverwrites(st, oldKey, newKey) ==
  IF ~isString(oldKey) \/ ~isString(newKey) THEN Throws(st)
  ELSE IF ~MapHas(st.data, oldKey) THEN Returns(st, FALSE, Undefined)
  ELSE Done(State(st.size,
                  MapDelete(MapSet(st.data, newKey, MapGet(st.data, oldKey)), oldKey),
                  MapSet(st.accessCount, newKey, MapGet(st.accessCount, oldKey))),
            TRUE, Undefined)

\* rename(oldKey, newKey)
rename(st, oldKey, newKey) ==
  IF ~isString(oldKey) \/ ~isString(newKey) THEN Throws(st)
  ELSE IF ~MapHas(st.data, oldKey) THEN Returns(st, FALSE, Undefined)
  ELSE IF MapHas(st.data, newKey) THEN Returns(st, FALSE, Undefined)
  ELSE Done(State(st.size,
                  MapDelete(MapSet(st.data, newKey, MapGet(st.data, oldKey)), oldKey),
                  MapSet(st.accessCount, newKey, MapGet(st.accessCount, oldKey))),
            TRUE, Undefined)

\* mutant of has: a hit is counted as a read
hasCountsRead(st, key) ==
  IF ~isString(key) THEN Throws(st)
  ELSE IF ~MapHas(st.data, key) THEN Returns(st, FALSE, Undefined)
  ELSE Returns(State(st.size, st.data,
                     MapSet(st.accessCount, key, MapGet(st.accessCount, key) + 1)),
               TRUE, Undefined)

\* has(key)
has(st, key) ==
  IF ~isString(key) THEN Throws(st)
  ELSE Returns(st, MapHas(st.data, key), Undefined)

\* keys()
keys(st) == MapKeys(st.data)

\* mutant of clear: the access counts are left behind
clearKeepsCounts(st) == Done(State(0, << >>, st.accessCount), FALSE, Undefined)

\* clear()
clear(st) == Done(State(0, << >>, << >>), FALSE, Undefined)

\* ---------------------------------------------------------------- the calls
\* last is a recorded call: its name and arguments, and what it did
Call(op, key, newKey, value, r) ==
  [op |-> op, key |-> key, newKey |-> newKey, value |-> value, threw |-> r.threw,
   done |-> r.done, retBool |-> r.retBool, retValue |-> r.retValue,
   evicted |-> r.evicted, existed |-> r.existed, count |-> r.count]

\* call is the set in progress: where it stands (pc), its arguments and locals,
\* the sorted list of #free, the keys shifted off it and the entries evicted;
\* Idle between calls
Idle ==
  [pc |-> "idle", key |-> NoKey, value |-> Undefined, count |-> 0, existed |-> FALSE,
   sorted |-> << >>, shifted |-> << >>, evicted |-> << >>]

\* a call takes the fields to r.st. With log, last records every call; without,
\* only the calls that got past their early returns, so that a call that
\* returned early or threw leaves every variable as it was
Apply(log, op, key, newKey, value, r) ==
  /\ size' = r.st.size
  /\ data' = r.st.data
  /\ accessCount' = r.st.accessCount
  /\ last' = IF log \/ r.done THEN Call(op, key, newKey, value, r) ELSE last
  /\ UNCHANGED <<maxSize, call>>

\* constructor(maxSize): a cache exists only if the argument passed the check
Init ==
  /\ maxSize \in {n \in CtorArgs : isValidMaxSize(n)}
  /\ size = 0
  /\ data = << >>
  /\ accessCount = << >>
  /\ last = Call("constructor", NoKey, NoKey, Undefined, Done(Cur, FALSE, Undefined))
  /\ call = Idle

Size(log) == Apply(log, "size", NoKey, NoKey, Undefined, Returns(Cur, FALSE, Undefined))

MaxSize(log) == Apply(log, "maxSize", NoKey, NoKey, Undefined, Returns(Cur, FALSE, Undefined))

Keys(log) == Apply(log, "keys", NoKey, NoKey, Undefined, Returns(Cur, FALSE, Undefined))

Get(log, key) ==
  /\ MapHas(data, key) => MapGet(accessCount, key) < MaxCount
  /\ Apply(log, "get", key, NoKey, Undefined, get(Cur, key))

Set(log, key, value) == Apply(log, "set", key, NoKey, value, set(maxSize, Cur, key, value))

Rename(log, oldKey, newKey) ==
  Apply(log, "rename", oldKey, newKey, Undefined, rename(Cur, oldKey, newKey))

Has(log, key) == Apply(log, "has", key, NoKey, Undefined, has(Cur, key))

Delete(log, key) == Apply(log, "delete", key, NoKey, Undefined, delete(Cur, key))

Clear(log) == Apply(log, "clear", NoKey, NoKey, Undefined, clear(Cur))

Next ==
  \/ Size(FALSE)
  \/ MaxSize(FALSE)
  \/ Keys(FALSE)
  \/ \E key \in KeyArgs : Get(FALSE, key)
  \/ \E key \in KeyArgs, value \in ValueArgs : Set(FALSE, key, value)
  \/ \E oldKey \in KeyArgs, newKey \in KeyArgs : Rename(FALSE, oldKey, newKey)
  \/ \E key \in KeyArgs : Has(FALSE, key)
  \/ \E key \in KeyArgs : Delete(FALSE, key)
  \/ Clear(FALSE)

Spec == Init /\ [][Next]_vars

\* the same program called on two keys, with last recording every call
NextCalls ==
  \/ Size(TRUE)
  \/ MaxSize(TRUE)
  \/ Keys(TRUE)
  \/ \E key \in CallKeyArgs : Get(TRUE, key)
  \/ \E key \in CallKeyArgs, value \in ValueArgs : Set(TRUE, key, value)
  \/ \E oldKey \in CallKeyArgs, newKey \in CallKeyArgs : Rename(TRUE, oldKey, newKey)
  \/ \E key \in CallKeyArgs : Has(TRUE, key)
  \/ \E key \in CallKeyArgs : Delete(TRUE, key)
  \/ Clear(TRUE)

SpecCalls == Init /\ [][NextCalls]_vars

\* ---------------------------------------------------------------- set, step by step
\* set(key, value) up to the loop of #free: the type and size checks, the
\* captured access count, delete(key), and the first test of #free
SetBegin(key, value) ==
  /\ call.pc = "idle"
  /\ IF ~isString(key) \/ ~isBuffer(value) \/ maxSize < length(value)
       THEN UNCHANGED vars
       ELSE LET count == IF MapHas(accessCount, key) THEN MapGet(accessCount, key) ELSE 0
                deleted == delete(Cur, key)
                fitsNow == hasCapacity(maxSize, deleted.st, length(value))
            IN  /\ size' = deleted.st.size
                /\ data' = deleted.st.data
                /\ accessCount' = deleted.st.accessCount
                /\ call' = [pc |-> IF fitsNow THEN "insert" ELSE "while",
                            key |-> key, value |-> value, count |-> count,
                            existed |-> deleted.retBool,
                            sorted |-> IF fitsNow THEN << >>
                                       ELSE sortedAccessCounts(deleted.st.accessCount),
                            shifted |-> << >>, evicted |-> << >>]
                /\ UNCHANGED <<maxSize, last>>

\* mutant of whileBody: the head of the sorted list is read, not shifted
whileBodyPeeks(st, c) ==
  LET d == delete(st, Head(c.sorted)[1])
  IN  [st |-> d.st,
       call |-> [c EXCEPT !.evicted = IF d.retBool THEN Append(@, Head(c.sorted)) ELSE @]]

\* one pass of the loop body: this.delete(sortedAccessCounts.shift()[0])
whileBody(st, c) ==
  LET d == delete(st, Head(c.sorted)[1])
  IN  [st |-> d.st,
       call |-> [c EXCEPT !.sorted = Tail(@),
                          !.shifted = Append(@, Head(c.sorted)[1]),
                          !.evicted = IF d.retBool THEN Append(@, Head(c.sorted)) ELSE @]]

\* the loop test of #free, and one pass of its body or the way out
WhileStep ==
  /\ call.pc = "while"
  /\ IF ~hasCapacity(maxSize, Cur, length(call.value)) /\ Len(call.sorted) # 0
       THEN LET b == whileBody(Cur, call)
            IN  /\ size' = b.st.size
                /\ data' = b.st.data
                /\ accessCount' = b.st.accessCount
                /\ call' = b.call
       ELSE /\ call' = [call EXCEPT !.pc = "insert"]
            /\ UNCHANGED <<size, data, accessCount>>
  /\ UNCHANGED <<maxSize, last>>

\* the end of set: the new value is added and set returns
Insert ==
  /\ call.pc = "insert"
  /\ size' = size + length(call.value)
  /\ data' = MapSet(data, call.key, call.value)
  /\ accessCount' = MapSet(accessCount, call.key, call.count)
  /\ last' = Call("set", call.key, NoKey, call.value,
                  Result(Cur, FALSE, TRUE, FALSE, Undefined, call.evicted, call.existed, call.count))
  /\ call' = Idle
  /\ UNCHANGED maxSize

\* the other methods, called on two keys, run between two calls of set
Between ==
  /\ call.pc = "idle"
  /\ \/ Size(FALSE)
     \/ MaxSize(FALSE)
     \/ Keys(FALSE)
     \/ \E key \in CallKeyArgs : Get(FALSE, key)
     \/ \E oldKey \in CallKeyArgs, newKey \in CallKeyArgs : Rename(FALSE, oldKey, newKey)
     \/ \E key \in CallKeyArgs : Has(FALSE, key)
     \/ \E key \in CallKeyArgs : Delete(FALSE, key)
     \/ Clear(FALSE)

NextSteps ==
  \/ Between
  \/ \E key \in KeyArgs, value \in ValueArgs : SetBegin(key, value)
  \/ WhileStep
  \/ Insert

\* a call that has started runs on: the code is synchronous and single-threaded
SpecSteps == Init /\ [][NextSteps]_vars /\ WF_vars(WhileStep) /\ WF_vars(Insert)

\* ---------------------------------------------------------------- properties
RECURSIVE sumLengths(_)
sumLengths(m) == IF m = << >> THEN 0 ELSE length(Head(m)[2]) + sumLengths(Tail(m))

fits(value) == length(value) <= maxSize
indexOf(seq, k) == CHOOSE i \in 1..Len(seq) : seq[i] = k
evictedKeys(r) == [i \in 1..Len(r.evicted) |-> r.evicted[i][1]]

\* C1: after every public operation, in any sequence of operations on a fresh
\* cache, size <= maxSize.
C1_SizeWithinMaxSize == size <= maxSize

\* a set that had to evict and left the cache full
C1_Witness ==
  /\ last.op = "set"
  /\ last.evicted # << >>
  /\ maxSize > 0
  /\ size = maxSize

\* C2: after every public operation, size is the sum of the byte lengths of the
\* values stored, one term per key present.
C2_SizeIsSumOfLengths == size = sumLengths(data)

\* a set that replaced a stored value next to another entry
C2_Witness ==
  /\ last.op = "set"
  /\ last.existed
  /\ Len(data) >= 2
  /\ size > 0

\* C3: every entry a set evicts has an access count no larger than that of every
\* stored entry, other than the key being set, that survives the call.
C3_EvictsLeastFrequentlyUsed ==
  \A key \in StringKeys, value \in Buffers :
    LET r == set(maxSize, Cur, key, value)
    IN  \A i \in 1..Len(r.evicted) :
          \A f \in (MapKeySet(data) \cap MapKeySet(r.st.data)) \ {key} :
            MapGet(accessCount, r.evicted[i][1]) <= MapGet(accessCount, f)

\* a set evicted an entry and an entry with a larger access count survived it
C3_Witness ==
  /\ last.op = "set"
  /\ \E i \in 1..Len(last.evicted) :
       \E f \in MapKeySet(data) \ {last.key} :
         last.evicted[i][2] < MapGet(accessCount, f)

\* C4: a cache constructed with maxSize = 0 never holds an entry, whatever the
\* byte length (0 or more) of the values set: keys() is empty and has(k) is
\* false for every key.
C4_DisabledCacheIsEmpty ==
  maxSize = 0 =>
    /\ keys(Cur) = << >>
    /\ \A k \in StringKeys : ~has(Cur, k).retBool

\* C5: set on a key that is not stored inserts it with access count 0, whatever
\* the history of that key.
C5_NewKeyStartsAtZero ==
  \A key \in StringKeys, value \in Buffers :
    (~MapHas(data, key) /\ fits(value)) =>
      MapGet(set(maxSize, Cur, key, value).st.accessCount, key) = 0

\* C6: set with a value that fits, on a key that is stored, replaces the value
\* and keeps the access count the entry had.
C6_OverwriteKeepsCount ==
  \A key \in StringKeys, value \in Buffers :
    (MapHas(data, key) /\ fits(value)) =>
      LET r == set(maxSize, Cur, key, value)
      IN  /\ MapHas(r.st.data, key)
          /\ MapGet(r.st.data, key) = value
          /\ MapGet(r.st.accessCount, key) = MapGet(accessCount, key)

\* a set replaced the value of a key that had been read, and the count is kept
C6_Witness ==
  /\ last.op = "set"
  /\ last.existed
  /\ last.count = MaxCount
  /\ MapGet(data, last.key) = last.value
  /\ MapGet(accessCount, last.key) = MaxCount

\* C7: set with a value longer than maxSize throws nothing and leaves the stored
\* values, the access counts, the key order and size as they were, an entry
\* stored under key included.
C7_OversizedSetIsNoOp ==
  \A key \in StringKeys, value \in Buffers :
    length(value) > maxSize =>
      LET r == set(maxSize, Cur, key, value)
      IN  /\ ~r.threw
          /\ r.st = Cur

\* an oversized set was called on a key that is stored, next to another entry
C7_Witness ==
  /\ last.op = "set"
  /\ ~last.threw
  /\ length(last.value) > maxSize
  /\ MapHas(data, last.key)
  /\ Len(data) >= 2
  /\ size > 0

\* C8: set(k, v) with a value that fits, followed at once by get(k), returns v,
\* and has(k) is true, for a new key as for a stored one and whatever had to be
\* evicted.
C8_SetThenGetRoundTrip ==
  \A key \in StringKeys, value \in Buffers :
    fits(value) =>
      LET r == set(maxSize, Cur, key, value)
          g == get(r.st, key)
      IN  /\ ~r.threw
          /\ ~g.threw
          /\ g.retValue = value
          /\ has(r.st, key).retBool

\* a set replaced a stored key, evicted another entry, and the value is there
C8_Witness ==
  /\ last.op = "set"
  /\ last.existed
  /\ last.evicted # << >>
  /\ get(Cur, last.key).retValue = last.value

\* C9: among the entries of equal access count, set evicts in the order keys()
\* lists them: if it evicts an entry, it has evicted before it every stored
\* entry of the same count that keys() lists earlier.
C9_TiesEvictedInKeysOrder ==
  \A key \in StringKeys, value \in Buffers :
    LET r == set(maxSize, Cur, key, value)
        order == keys(Cur)
        gone == evictedKeys(r)
    IN  \A i \in 1..Len(gone) :
          \A f \in MapKeySet(data) \ {key, gone[i]} :
            ( /\ MapGet(accessCount, f) = MapGet(accessCount, gone[i])
              /\ indexOf(order, f) < indexOf(order, gone[i]) )
            => \E j \in 1..(i - 1) : gone[j] = f

\* C10: rename(oldKey, newKey) with oldKey stored and newKey not returns true;
\* oldKey is gone, newKey has the value and the access count oldKey had, size
\* and every other entry are as they were.
C10_RenameMovesEntry ==
  \A oldKey \in StringKeys, newKey \in StringKeys :
    (MapHas(data, oldKey) /\ ~MapHas(data, newKey)) =>
      LET r == rename(Cur, oldKey, newKey)
      IN  /\ ~r.threw
          /\ r.retBool
          /\ ~has(r.st, oldKey).retBool
          /\ has(r.st, newKey).retBool
          /\ MapGet(r.st.data, newKey) = MapGet(data, oldKey)
          /\ MapGet(r.st.accessCount, newKey) = MapGet(accessCount, oldKey)
          /\ r.st.size = size
          /\ MapKeySet(r.st.data) = (MapKeySet(data) \ {oldKey}) \cup {newKey}
          /\ \A k \in MapKeySet(data) \ {oldKey} :
               /\ MapGet(r.st.data, k) = MapGet(data, k)
               /\ MapGet(r.st.accessCount, k) = MapGet(accessCount, k)

\* a rename moved an entry that had been read, next to another entry
C10_Witness ==
  /\ last.op = "rename"
  /\ last.retBool
  /\ ~MapHas(data, last.key)
  /\ MapGet(accessCount, last.newKey) = MaxCount
  /\ Len(data) >= 2
  /\ size > 0

\* C11: rename(oldKey, newKey) with oldKey not stored, or with newKey stored,
\* returns false, throws nothing and leaves values, access counts, key order
\* and size as they were.
C11_FailedRenameIsNoOp ==
  \A oldKey \in StringKeys, newKey \in StringKeys :
    (~MapHas(data, oldKey) \/ MapHas(data, newKey)) =>
      LET r == rename(Cur, oldKey, newKey)
      IN  /\ ~r.threw
          /\ ~r.retBool
          /\ r.st = Cur

\* a rename onto another stored key was turned away
C11_Witness ==
  /\ last.op = "rename"
  /\ ~last.threw
  /\ ~last.retBool
  /\ last.key # last.newKey
  /\ MapHas(data, last.key)
  /\ MapHas(data, last.newKey)
  /\ size > 0

\* C12: get(key) on a stored key returns the value and adds exactly 1 to that
\* entry's access count, and changes nothing else; get(key) on a key that is
\* not stored returns undefined and changes nothing, no access count is made.
C12_GetCountsOneRead ==
  \A key \in StringKeys :
    LET r == get(Cur, key)
    IN  /\ ~r.threw
        /\ r.st.data = data
        /\ r.st.size = size
        /\ IF MapHas(data, key)
             THEN /\ r.retValue = MapGet(data, key)
                  /\ MapKeys(r.st.accessCount) = MapKeys(accessCount)
                  /\ MapGet(r.st.accessCount, key) = MapGet(accessCount, key) + 1
                  /\ \A k \in MapKeySet(accessCount) \ {key} :
                       MapGet(r.st.accessCount, k) = MapGet(accessCount, k)
             ELSE /\ r.retValue = Undefined
                  /\ r.st = Cur

\* a get read a stored entry, next to another one, and counted it
C12_Witness ==
  /\ last.op = "get"
  /\ last.done
  /\ last.retValue = MapGet(data, last.key)
  /\ MapGet(accessCount, last.key) = MaxCount
  /\ Len(data) >= 2
  /\ size > 0

\* C13: delete(key) returns false and changes nothing if key is not stored;
\* otherwise it returns true, removes the entry and its access count, takes
\* the byte length of the removed value off size and leaves every other entry
\* as it was.
C13_DeleteRemovesOneEntry ==
  \A key \in StringKeys :
    LET r == delete(Cur, key)
    IN  /\ ~r.threw
        /\ IF ~MapHas(data, key)
             THEN /\ ~r.retBool
                  /\ r.st = Cur
             ELSE /\ r.retBool
                  /\ ~MapHas(r.st.data, key)
                  /\ ~MapHas(r.st.accessCount, key)
                  /\ r.st.size = size - length(MapGet(data, key))
                  /\ MapKeySet(r.st.data) = MapKeySet(data) \ {key}
                  /\ \A k \in MapKeySet(data) \ {key} :
                       /\ MapGet(r.st.data, k) = MapGet(data, k)
                       /\ MapGet(r.st.accessCount, k) = MapGet(accessCount, k)

\* a delete removed an entry with bytes and left another entry stored
C13_Witness ==
  /\ last.op = "delete"
  /\ last.retBool
  /\ ~MapHas(data, last.key)
  /\ ~MapHas(accessCount, last.key)
  /\ Len(data) >= 1
  /\ size < maxSize

without(seq, gone) == SelectSeq(seq, LAMBDA k : k \notin gone)
range(seq) == {seq[i] : i \in 1..Len(seq)}

\* C14: clear() leaves size 0, keys() empty and no access count for any key, so
\* that a later set of any key starts at 0; maxSize is as it was, and a second
\* clear() leaves the same empty state.
C14_ClearEmptiesTheCache ==
  [][ last'.op = "clear" =>
        /\ size' = 0
        /\ keys(Cur') = << >>
        /\ accessCount' = << >>
        /\ maxSize' = maxSize
        /\ clear(Cur').st = Cur'
        /\ \A key \in StringKeys, value \in Buffers :
             fits(value) => MapGet(set(maxSize', Cur', key, value).st.accessCount, key) = 0
    ]_vars

\* a clear has emptied a cache that can hold entries
C14_Witness ==
  /\ last.op = "clear"
  /\ maxSize > 0
  /\ size = 0
  /\ keys(Cur) = << >>

\* C15: keys() lists exactly the keys stored, each once, in the order of the
\* last set or rename that placed an entry under the key: set and rename put
\* their key at the end, get and delete leave the order of the others alone,
\* whatever the access counts.
C15_KeysInInsertionOrder ==
  LET order == keys(Cur)
  IN  /\ \A i \in 1..Len(order), j \in 1..Len(order) : order[i] = order[j] => i = j
      /\ \A k \in StringKeys : has(Cur, k).retBool <=> k \in range(order)
      /\ \A key \in StringKeys :
           /\ keys(get(Cur, key).st) = order
           /\ keys(delete(Cur, key).st) = without(order, {key})
      /\ \A key \in StringKeys, value \in Buffers :
           fits(value) =>
             LET r == set(maxSize, Cur, key, value)
             IN  keys(r.st) = Append(without(order, range(evictedKeys(r)) \cup {key}), key)
      /\ \A oldKey \in StringKeys, newKey \in StringKeys :
           (MapHas(data, oldKey) /\ ~MapHas(data, newKey)) =>
             keys(rename(Cur, oldKey, newKey).st) = Append(without(order, {oldKey}), newKey)

\* a set has overwritten the first of two keys: it is now listed last, behind a
\* key that has been read less often
C15_Witness ==
  /\ last.op = "set"
  /\ last.existed
  /\ Len(data) >= 2
  /\ keys(Cur)[Len(data)] = last.key
  /\ MapGet(accessCount, keys(Cur)[1]) < MapGet(accessCount, last.key)

\* C16: has, keys, size and maxSize change no stored value, no access count, no
\* key order and not size; and no operation changes maxSize.
C16_ReadsChangeNothing ==
  [][ /\ maxSize' = maxSize
      /\ last'.op \in {"has", "keys", "size", "maxSize"} => Cur' = Cur
    ]_vars

\* has found a stored key in a cache of two entries
C16_Witness ==
  /\ last.op = "has"
  /\ last.retBool
  /\ Len(data) >= 2
  /\ size > 0

\* C17: a call with a key that is no string, or a set with a value that is no
\* Buffer, throws a TypeError and leaves the whole cache as it was.
C17_TypeErrorsChangeNothing ==
  LET unchanged(r) == r.threw /\ r.st = Cur
  IN  /\ unchanged(get(Cur, NotAString))
      /\ unchanged(has(Cur, NotAString))
      /\ unchanged(delete(Cur, NotAString))
      /\ \A key \in KeyArgs :
           /\ unchanged(rename(Cur, NotAString, key))
           /\ unchanged(rename(Cur, key, NotAString))
           /\ unchanged(set(maxSize, Cur, key, NotABuffer))
      /\ \A value \in ValueArgs : unchanged(set(maxSize, Cur, NotAString, value))

\* a set of a stored key threw on a value that is no Buffer
C17_Witness ==
  /\ last.op = "set"
  /\ last.threw
  /\ last.value = NotABuffer
  /\ MapHas(data, last.key)
  /\ size > 0

\* C18: if the value fits once the old entry of key is removed, set removes no
\* other entry; otherwise it stops evicting as soon as the value fits: with
\* the entry it evicted last still stored the value did not fit, and every
\* entry it did not evict is still stored.
C18_EvictsNoMoreThanNeeded ==
  \A key \in StringKeys, value \in Buffers :
    fits(value) =>
      LET r == set(maxSize, Cur, key, value)
          gone == evictedKeys(r)
          freed == r.st.size - length(value)
      IN  /\ hasCapacity(maxSize, delete(Cur, key).st, length(value)) => gone = << >>
          /\ gone # << >> =>
               freed + length(MapGet(data, gone[Len(gone)])) + length(value) > maxSize
          /\ MapKeySet(r.st.data) = (MapKeySet(data) \ range(gone)) \cup {key}
          /\ \A k \in MapKeySet(r.st.data) \ {key} : MapGet(r.st.data, k) = MapGet(data, k)

\* a set evicted an entry and stopped there: another entry is still stored
C18_Witness ==
  /\ last.op = "set"
  /\ last.evicted # << >>
  /\ ~last.existed
  /\ Len(data) >= 2

\* C19: after every public operation the keys that have an access count are the
\* keys that have a stored value.
C19_CountsMatchEntries == MapKeySet(accessCount) = MapKeySet(data)

\* C20: every operation ends; a set that has entered #free comes back to the
\* caller, also when the access counts hold keys that have no stored value.
C20_SetTerminates == (call.pc # "idle") ~> (call.pc = "idle")

\* the loop of #free has shifted a key that has no stored value, evicted an
\* entry, and has ended
C20_Witness ==
  /\ call.pc = "insert"
  /\ call.evicted # << >>
  /\ \E i \in 1..Len(call.shifted) : call.shifted[i] \notin range(evictedKeys(call))

====
